---- MODULE Spec2Model ----
(***************************************************************************)
(* Model of src/main.py: the POST /metrics handler (get_metrics) and the   *)
(* aggregation pipeline (fetch_metrics) with its two helpers, fetch and    *)
(* get_campaign_insights.                                                  *)
(*                                                                         *)
(* Representation.  A Python float is a fixed-point integer counting       *)
(* 1/Scale units, so int() truncates (x \div Scale).  A ratio that is only *)
(* ever formatted is a pair <<num, den>>.  A JSON scalar is a tagged       *)
(* record: Num(n) a JSON number, NumStr(n) a string spelling that number,  *)
(* Str(s) any other string, Null the JSON null.  A JSON object is a        *)
(* function over its keys, so an absent key is a key outside DOMAIN.       *)
(* Non-ASCII letters of the source's message strings are written in ASCII. *)
(***************************************************************************)
EXTENDS Integers, Sequences, FiniteSets, TLC

VARIABLES pc, account_id, access_token, net, fetches,
          insights_data, campaigns_data,
          impressions, clicks, ctr, cpc, spent, conversions, engagement,
          total_active_campaigns, tasks, recent_campaignsMA, response,
          actions_in, reduced

vars == <<pc, account_id, access_token, net, fetches,
          insights_data, campaigns_data,
          impressions, clicks, ctr, cpc, spent, conversions, engagement,
          total_active_campaigns, tasks, recent_campaignsMA, response,
          actions_in, reduced>>

-----------------------------------------------------------------------------
(* Bounds *)

MaxCampaigns == 2
Scale == 2
MaxActions == 3

-----------------------------------------------------------------------------
(* JSON values *)

Num(n) == [t |-> "num", v |-> n]
NumStr(n) == [t |-> "numstr", v |-> n]
Str(s) == [t |-> "str", v |-> s]
Null == [t |-> "null"]

IsDict(x) == "t" \notin DOMAIN x

Get(d, k, default) == IF k \in DOMAIN d THEN d[k] ELSE default

\* float(x): a number or a numeric string parses; anything else raises.
FloatRaises(raw) == raw.t \notin {"num", "numstr"}
Float(raw) == raw.v

\* try: float(item.get(key, 0)) / except: 0.0
ToFloat(item, key) ==
    LET raw == Get(item, key, Num(0))
    IN IF FloatRaises(raw) THEN 0 ELSE Float(raw)

\* int(x) of a non-negative float
int(x) == x \div Scale

-----------------------------------------------------------------------------
(* Formatting: f"{value:.2f}" rounds the value to the nearest hundredth,   *)
(* an exactly representable tie going to the even neighbour.  The values   *)
(* the upstream sends here are small enough that the double nearest to a   *)
(* ratio rounds as the ratio itself does.                                  *)

Hundredths(num, den) ==
    LET q == (100 * num) \div den
        r == (100 * num) % den
    IN IF 2 * r > den \/ (2 * r = den /\ q % 2 = 1) THEN q + 1 ELSE q

Fixed2(value) ==
    LET h == Hundredths(value[1], value[2])
    IN ToString(h \div 100) \o "." \o ToString((h % 100) \div 10) \o ToString(h % 10)

format_percentage(value) == Fixed2(value) \o "%"

format_currency(value) == Fixed2(value)

-----------------------------------------------------------------------------
(* Ratios.  A ratio is <<num, den>>; 0.0 is <<0, 1>>. *)

\* (clicks / impressions * 100) if impressions > 0 else 0.0
CtrValue(c, i) == IF i > 0 THEN <<c * 100, i>> ELSE <<0, 1>>

\* A cost (fixed point) divided by a click count: the guard on another quantity.
CpcValue_NoDivision(s, c) == IF c > 0 THEN <<s, Scale>> ELSE <<0, 1>>

\* (global_spent / aggregated_clicks) if aggregated_clicks > 0 else 0.0
CpcValue(s, c) == IF c > 0 THEN <<s, Scale * c>> ELSE <<0, 1>>

-----------------------------------------------------------------------------
(* The upstream API: what one HTTP GET can come back with. *)

ActionTypesConversions == {"offsite_conversion"}
ActionTypesEngagement == {"page_engagement", "post_engagement", "post_reaction"}

Action(type, value) == [action_type |-> type, value |-> value]

\* Insight rows the upstream may return for a campaign.
CampaignItems ==
    { [impressions |-> NumStr(8), clicks |-> NumStr(4), spend |-> NumStr(5),
       cpc |-> NumStr(3), ctr |-> NumStr(100),
       actions |-> << Action("offsite_conversion", NumStr(2)),
                      Action("post_engagement", NumStr(1)),
                      Action("link_click", NumStr(4)) >>],
      [impressions |-> Num(7), clicks |-> Str("n/a"), spend |-> Num(3)],
      [impressions |-> Num(0), clicks |-> Num(3), spend |-> Null, cpc |-> Num(1),
       actions |-> << Action("page_engagement", Str("x")),
                      Action("post_reaction", Num(3)) >>],
      [impressions |-> Num(6), clicks |-> Num(2), spend |-> Num(2),
       actions |-> << Action("offsite_conversion", Num(2)), Str("oops") >>] }

\* Insight rows the upstream may return for the account.
AccountItems ==
    { [impressions |-> NumStr(20), clicks |-> NumStr(6), spend |-> NumStr(9),
       cpc |-> NumStr(3), ctr |-> NumStr(60),
       actions |-> << Action("offsite_conversion", NumStr(4)) >>],
      [impressions |-> Num(2), clicks |-> Str("n/a")],
      [impressions |-> Num(4), actions |-> << Str("oops") >>] }

\* Campaigns the upstream may list.
CampaignPool ==
    { [id |-> "1", name |-> "A", status |-> "ACTIVE"],
      [id |-> "2", name |-> "B", status |-> "ACTIVE"],
      [id |-> "3", status |-> "ACTIVE"] }

\* The upstream lists an account's campaigns oldest first or newest first.
Older(c, d) == <<c.id, d.id>> \in {<<"1", "2">>, <<"1", "3">>, <<"2", "3">>}

Listings ==
    UNION { { l \in [1..n -> CampaignPool] :
                \/ \A i, j \in 1..n : i < j => Older(l[i], l[j])
                \/ \A i, j \in 1..n : i < j => Older(l[j], l[i]) } : n \in 0..MaxCampaigns }

Body(text, json) == [text |-> text, json |-> json]

NoDataBody == Body("{paging}", [paging |-> "none"])
ErrorBody == Body("{error}", [error |-> "OAuthException"])

InsightBodies(items) ==
    {NoDataBody, Body("{data:[]}", [data |-> <<>>])}
        \cup { Body("{data:[row]}", [data |-> <<it>>]) : it \in items }

ListingBodies ==
    {NoDataBody} \cup { Body("{data:[campaigns]}", [data |-> l]) : l \in Listings }

Response(status, body) == [kind |-> "response", status |-> status, body |-> body]
TransportError == [kind |-> "error", message |-> "TimeoutError"]

\* A failing status may still carry a body that parses and has a data array.
Outcomes(bodies, sample) ==
    { Response(200, b) : b \in bodies }
        \cup { Response(s, b) : s \in {201, 401}, b \in {sample} }
        \cup { Response(401, ErrorBody), TransportError }

CampaignOutcomes ==
    Outcomes(InsightBodies(CampaignItems),
             Body("{data:[row]}", [data |-> <<[impressions |-> Num(4), clicks |-> Num(2), spend |-> Num(2)]>>]))

AccountOutcomes ==
    Outcomes(InsightBodies(AccountItems),
             Body("{data:[row]}", [data |-> <<[impressions |-> Num(4)]>>]))

ListingOutcomes ==
    Outcomes(ListingBodies,
             Body("{data:[campaigns]}", [data |-> <<[id |-> "1", name |-> "A", status |-> "ACTIVE"]>>]))

-----------------------------------------------------------------------------
(* fetch(url, params): one GET, no retry. *)

Raised(exc) == [raised |-> TRUE, exc |-> exc]
Returned(value) == [raised |-> FALSE, value |-> value]

\* fetch without the status test: every response that arrives is parsed.
fetch_NoStatusCheck(outcome) ==
    IF outcome.kind = "error" THEN Raised(outcome.message)
    ELSE Returned(outcome.body.json)

fetch(outcome) ==
    IF outcome.kind = "error" THEN Raised(outcome.message)
    ELSE IF outcome.status # 200
         THEN Raised("Erro " \o ToString(outcome.status) \o ": " \o outcome.body.text)
         ELSE Returned(outcome.body.json)

InsightsUrl(account) == "https://graph.facebook.com/v16.0/act_" \o account \o "/insights"
CampaignsUrl(account) == "https://graph.facebook.com/v16.0/act_" \o account \o "/campaigns"
CampaignInsightsUrl(campaign_id) == "https://graph.facebook.com/v16.0/" \o campaign_id \o "/insights"

Request(url, fields, token) == [url |-> url, fields |-> fields, access_token |-> token]

ParamsInsightsFields == "impressions,clicks,ctr,spend,cpc,actions"
ParamsCampaignsFields == "id,name,status"
ParamsCampaignInsightsFields == "impressions,clicks,ctr,cpc,spend,actions"

-----------------------------------------------------------------------------
(* The action loop shared by the account-level and the per-campaign code. *)

\* action.get(...) on an entry that is not an object raises AttributeError.
ActionsRaise(actions) == \E i \in 1..Len(actions) : ~IsDict(actions[i])

\* The loop that leaves after its first action.
SumActions_HeadOnly(actions, types) ==
    IF actions = <<>> THEN 0
    ELSE IF Get(Head(actions), "action_type", "") \in types
         THEN ToFloat(Head(actions), "value") ELSE 0

\* for action in item.get("actions", []): the value added to one accumulator
RECURSIVE SumActions(_, _)
SumActions(actions, types) ==
    IF actions = <<>> THEN 0
    ELSE LET action == Head(actions)
             value == ToFloat(action, "value")
         IN (IF Get(action, "action_type", "") \in types THEN value ELSE 0)
                + SumActions(Tail(actions), types)

-----------------------------------------------------------------------------
(* get_campaign_insights(camp) *)

AuxKeys == {"_spend", "_conversions", "_engagement"}

\* campaign_obj as initialised before the request is sent
DefaultCampaignObj(camp) ==
    [id |-> Get(camp, "id", ""),
     nome_da_campanha |-> Get(camp, "name", ""),
     cpc |-> "0.00",
     impressions |-> 0,
     clicks |-> 0,
     ctr |-> "0.00%"]

\* The campaign's cost per click computed from its own spend and clicks.
CampCpcValue_FromSpend(item) ==
    IF ToFloat(item, "clicks") > 0
    THEN <<ToFloat(item, "spend"), ToFloat(item, "clicks")>>
    ELSE <<0, 1>>

\* try: camp_cpc = float(item.get("cpc", 0)) / except: camp_cpc = 0.0
CampCpcValue(item) == <<ToFloat(item, "cpc"), Scale>>

\* The try block after the await: campaign_obj as it is when the function
\* returns, given what fetch returned or raised.
CampaignObjAfter(campaign_obj, fetched) ==
    IF fetched.raised THEN campaign_obj
    ELSE
      LET campaign_insights == fetched.value
      IN IF ~("data" \in DOMAIN campaign_insights /\ campaign_insights.data # <<>>)
         THEN campaign_obj
         ELSE
           LET item == campaign_insights.data[1]
               camp_impressions == ToFloat(item, "impressions")
               camp_clicks == ToFloat(item, "clicks")
               ctr_value == CtrValue(camp_clicks, camp_impressions)
               camp_cpc == CampCpcValue(item)
               camp_spend == ToFloat(item, "spend")
               actions == Get(item, "actions", <<>>)
               shown == [campaign_obj EXCEPT
                           !.impressions = int(camp_impressions),
                           !.clicks = int(camp_clicks),
                           !.ctr = format_percentage(ctr_value),
                           !.cpc = format_currency(camp_cpc)]
           IN IF ActionsRaise(actions)
              THEN shown
              ELSE shown @@ ("_spend" :> camp_spend)
                         @@ ("_conversions" :> SumActions(actions, ActionTypesConversions))
                         @@ ("_engagement" :> SumActions(actions, ActionTypesEngagement))

-----------------------------------------------------------------------------
(* fetch_metrics: the join and the aggregation *)

\* The list asyncio.gather returns, with the campaigns whose request failed left out.
GatherResults_SkipFailed(ts) ==
    LET kept == SelectSeq(ts, LAMBDA t : ~fetch(t.outcome).raised)
    IN [i \in 1..Len(kept) |-> kept[i].campaign_obj]

\* The list asyncio.gather returns, in the reverse of the order of the tasks.
GatherResults_Reversed(ts) ==
    [i \in 1..Len(ts) |-> ts[Len(ts) + 1 - i].campaign_obj]

\* asyncio.gather(*tasks): the results in the order of the tasks
GatherResults(ts) == [i \in 1..Len(ts) |-> ts[i].campaign_obj]

RECURSIVE SumFrom(_, _, _)
SumFrom(objs, key, i) ==
    IF i > Len(objs) THEN 0 ELSE Get(objs[i], key, 0) + SumFrom(objs, key, i + 1)

\* The sum without its first term.
SumOver_SkipFirst(objs, key) == SumFrom(objs, key, 2)

\* sum(camp.get(key, 0) for camp in recent_campaignsMA)
SumOver(objs, key) == SumFrom(objs, key, 1)

\* The aggregates computed from the campaign objects
Aggregated(objs) ==
    LET aggregated_impressions == SumOver(objs, "impressions")
        aggregated_clicks == SumOver(objs, "clicks")
        global_spent == SumOver(objs, "_spend")
    IN [impressions |-> aggregated_impressions,
        clicks |-> aggregated_clicks,
        ctr |-> format_percentage(CtrValue(aggregated_clicks, aggregated_impressions)),
        cpc |-> format_currency(CpcValue(global_spent, aggregated_clicks)),
        spent |-> global_spent,
        conversions |-> SumOver(objs, "_conversions"),
        engagement |-> SumOver(objs, "_engagement")]

\* The account-level values kept where the account reported any.
FinalValues_KeepAccountSpend(account, agg) ==
    [agg EXCEPT !.spent = IF account.spent > 0 THEN account.spent ELSE agg.spent]

\* The account-level locals are overwritten by the aggregates.
FinalValues(account, agg) == agg

\* The pops that leave _engagement behind.
PopAux_KeepEngagement(camp) ==
    [k \in DOMAIN camp \ {"_spend", "_conversions"} |-> camp[k]]

\* camp.pop("_spend", None); camp.pop("_conversions", None); camp.pop("_engagement", None)
PopAux(camp) == [k \in DOMAIN camp \ AuxKeys |-> camp[k]]

-----------------------------------------------------------------------------
(* get_metrics: validation and error mapping *)

None == [t |-> "None"]

\* The test that rejects only a missing key.
Falsy_OnlyNone(x) == x = None

\* not x, for a payload value that is absent or a string
Falsy(x) == x = None \/ x = Str("")

HTTPException(status_code, detail) == [status_code |-> status_code, detail |-> detail]

\* str(e) of an HTTPException, as Starlette renders it: "<status_code>: <detail>"
StrHTTPException(e) == ToString(e.status_code) \o ": " \o e.detail

\* except Exception as e: raise HTTPException(status_code=500, detail=str(e))
InternalError(detail) == HTTPException(500, detail)

PayloadValues == {None, Str(""), Str("123")}

FetchNames == {"insights", "campaigns"}

-----------------------------------------------------------------------------
(* State machine *)

PipelineInit ==
    /\ pc = "idle"
    /\ account_id = None
    /\ access_token = None
    /\ net = <<>>
    /\ fetches = [k \in FetchNames |-> [st |-> "none"]]
    /\ insights_data = None
    /\ campaigns_data = None
    /\ impressions = 0
    /\ clicks = 0
    /\ ctr = None
    /\ cpc = 0
    /\ spent = 0
    /\ conversions = 0
    /\ engagement = 0
    /\ total_active_campaigns = 0
    /\ tasks = <<>>
    /\ recent_campaignsMA = <<>>
    /\ response = None

\* The locals of the action loop, outside any run of it
reducerVars == <<actions_in, reduced>>

Init ==
    /\ PipelineInit
    /\ actions_in = <<>>
    /\ reduced = None

pipelineLocals == <<insights_data, campaigns_data, impressions, clicks, ctr, cpc,
                    spent, conversions, engagement, total_active_campaigns,
                    tasks, recent_campaignsMA>>

\* get_metrics up to the first await: validation, then fetch_metrics up to
\* the creation of the two fetch tasks by asyncio.gather.
GetMetrics ==
    /\ UNCHANGED reducerVars
    /\ pc = "idle"
    /\ \E a \in PayloadValues, t \in PayloadValues :
         /\ account_id' = a
         /\ access_token' = t
         /\ IF Falsy(a) \/ Falsy(t)
            THEN /\ response' = HTTPException(400, "E necessario fornecer 'account_id' e 'access_token' no body.")
                 /\ pc' = "done"
                 /\ UNCHANGED fetches
            ELSE /\ fetches' = [k \in FetchNames |-> [st |-> "scheduled"]]
                 /\ pc' = "gather"
                 /\ UNCHANGED response
    /\ UNCHANGED <<net, pipelineLocals>>

FetchRequest(k) ==
    IF k = "insights"
    THEN Request(InsightsUrl(account_id.v), ParamsInsightsFields, access_token.v)
    ELSE Request(CampaignsUrl(account_id.v), ParamsCampaignsFields, access_token.v)

\* fetch(url, params) of the initial gather: session.get sends the request.
FetchIssue(k) ==
    /\ UNCHANGED reducerVars
    /\ pc = "gather"
    /\ fetches[k].st = "scheduled"
    /\ net' = Append(net, FetchRequest(k))
    /\ fetches' = [fetches EXCEPT ![k] = [st |-> "inflight"]]
    /\ UNCHANGED <<pc, account_id, access_token, pipelineLocals, response>>

\* The upstream answers, or the transport fails or times out.
FetchComplete(k) ==
    /\ UNCHANGED reducerVars
    /\ pc = "gather"
    /\ fetches[k].st = "inflight"
    /\ \E o \in (IF k = "insights" THEN AccountOutcomes ELSE ListingOutcomes) :
         fetches' = [fetches EXCEPT ![k] = [st |-> "done", outcome |-> o]]
    /\ UNCHANGED <<pc, account_id, access_token, net, pipelineLocals, response>>

FetchDone(k) == fetches[k].st = "done"
FetchRaised(k) == FetchDone(k) /\ fetch(fetches[k].outcome).raised

\* asyncio.gather raises the first exception of its children; fetch_metrics
\* turns it into HTTPException(502) and get_metrics' except Exception turns
\* that into HTTPException(500).
GatherFail ==
    /\ UNCHANGED reducerVars
    /\ pc = "gather"
    /\ \E k \in FetchNames :
         /\ FetchRaised(k)
         /\ LET e == fetch(fetches[k].outcome).exc
                gateway == HTTPException(502, "Erro de conexao: " \o e)
            IN response' = InternalError(StrHTTPException(gateway))
    /\ pc' = "done"
    /\ UNCHANGED <<account_id, access_token, net, fetches, pipelineLocals>>

\* The actions of the account row before the first entry that is not an object
ActionsBeforeRaise(actions) ==
    IF ActionsRaise(actions)
    THEN SubSeq(actions, 1,
                (CHOOSE i \in 1..Len(actions) :
                    /\ ~IsDict(actions[i])
                    /\ \A j \in 1..(i - 1) : IsDict(actions[j])) - 1)
    ELSE actions

\* asyncio.gather returns both bodies; the account-level record is checked and
\* read, the campaigns are counted and one task per campaign is created.
GatherReturn ==
    /\ UNCHANGED reducerVars
    /\ pc = "gather"
    /\ \A k \in FetchNames : FetchDone(k) /\ ~FetchRaised(k)
    /\ insights_data' = fetch(fetches["insights"].outcome).value
    /\ campaigns_data' = fetch(fetches["campaigns"].outcome).value
    /\ IF ~("data" \in DOMAIN insights_data' /\ insights_data'.data # <<>>)
       THEN /\ response' = InternalError(StrHTTPException(
                              HTTPException(404, "Nenhum dado de insights encontrado.")))
            /\ pc' = "done"
            /\ UNCHANGED <<impressions, clicks, ctr, cpc, spent, conversions,
                           engagement, total_active_campaigns, tasks>>
       ELSE
         LET insights_item == insights_data'.data[1]
             actions == Get(insights_item, "actions", <<>>)
             campaigns_list == Get(campaigns_data', "data", <<>>)
         IN /\ impressions' = ToFloat(insights_item, "impressions")
            /\ clicks' = ToFloat(insights_item, "clicks")
            /\ ctr' = Get(insights_item, "ctr", None)
            /\ cpc' = ToFloat(insights_item, "cpc")
            /\ spent' = ToFloat(insights_item, "spend")
            /\ conversions' = SumActions(ActionsBeforeRaise(actions), ActionTypesConversions)
            /\ engagement' = SumActions(ActionsBeforeRaise(actions), ActionTypesEngagement)
            /\ IF ActionsRaise(actions)
               THEN /\ response' = InternalError("'str' object has no attribute 'get'")
                    /\ pc' = "done"
                    /\ UNCHANGED <<total_active_campaigns, tasks>>
               ELSE /\ total_active_campaigns' = Len(campaigns_list)
                    /\ tasks' = [i \in 1..Len(campaigns_list) |->
                                    [st |-> "scheduled", camp |-> campaigns_list[i]]]
                    /\ pc' = "join"
                    /\ UNCHANGED response
    /\ UNCHANGED <<account_id, access_token, net, fetches, recent_campaignsMA>>

\* get_campaign_insights(camp) up to its await: campaign_obj is initialised
\* and the request for the campaign's insights is sent.
TaskIssue(i) ==
    /\ UNCHANGED reducerVars
    /\ pc = "join"
    /\ tasks[i].st = "scheduled"
    /\ LET campaign_obj == DefaultCampaignObj(tasks[i].camp)
       IN /\ net' = Append(net, Request(CampaignInsightsUrl(campaign_obj.id),
                                        ParamsCampaignInsightsFields, access_token.v))
          /\ tasks' = [tasks EXCEPT ![i] =
                          [st |-> "inflight", camp |-> tasks[i].camp,
                           campaign_obj |-> campaign_obj]]
    /\ UNCHANGED <<pc, account_id, access_token, fetches, insights_data, campaigns_data,
                   impressions, clicks, ctr, cpc, spent, conversions, engagement,
                   total_active_campaigns, recent_campaignsMA, response>>

\* The branch writing into one campaign_obj that all branches share.
TaskComplete_SharedObject(i) ==
    /\ UNCHANGED reducerVars
    /\ pc = "join"
    /\ tasks[i].st = "inflight"
    /\ \E o \in CampaignOutcomes :
         LET obj == CampaignObjAfter(tasks[i].campaign_obj, fetch(o))
         IN tasks' = [j \in 1..Len(tasks) |->
                        IF j = i
                        THEN [st |-> "done", camp |-> tasks[i].camp, outcome |-> o,
                              campaign_obj |-> obj]
                        ELSE IF "campaign_obj" \in DOMAIN tasks[j]
                             THEN [tasks[j] EXCEPT !.campaign_obj = obj]
                             ELSE tasks[j]]
    /\ UNCHANGED <<pc, account_id, access_token, net, fetches, insights_data, campaigns_data,
                   impressions, clicks, ctr, cpc, spent, conversions, engagement,
                   total_active_campaigns, recent_campaignsMA, response>>

\* get_campaign_insights(camp) from its await to its return.
TaskComplete(i) ==
    /\ UNCHANGED reducerVars
    /\ pc = "join"
    /\ tasks[i].st = "inflight"
    /\ \E o \in CampaignOutcomes :
         tasks' = [tasks EXCEPT ![i] =
                      [st |-> "done", camp |-> tasks[i].camp, outcome |-> o,
                       campaign_obj |-> CampaignObjAfter(tasks[i].campaign_obj, fetch(o))]]
    /\ UNCHANGED <<pc, account_id, access_token, net, fetches, insights_data, campaigns_data,
                   impressions, clicks, ctr, cpc, spent, conversions, engagement,
                   total_active_campaigns, recent_campaignsMA, response>>

\* The join that waits until every branch has returned from a call that succeeded.
AllTasksDone_AllSucceeded ==
    \A i \in 1..Len(tasks) : tasks[i].st = "done" /\ ~fetch(tasks[i].outcome).raised

\* The join that only waits for every request to have been sent.
AllTasksDone_NoneScheduled == \A i \in 1..Len(tasks) : tasks[i].st # "scheduled"

\* await asyncio.gather(*tasks): every branch has returned
AllTasksDone == \A i \in 1..Len(tasks) : tasks[i].st = "done"

Result(total, totals, recent_campaigns_total, recent) ==
    [active_campaigns |-> total,
     total_impressions |-> totals.impressions,
     total_clicks |-> totals.clicks,
     ctr |-> totals.ctr,
     cpc |-> totals.cpc,
     conversions |-> totals.conversions,
     spent |-> totals.spent,
     engajamento |-> totals.engagement,
     recent_campaigns_total |-> recent_campaigns_total,
     recent_campaignsMA |-> recent]

\* The fan-in and everything after it: the gathered list, the aggregation, the
\* overwrite of the account-level values, the removal of the auxiliary keys,
\* the result, and get_metrics returning it.
Aggregate ==
    /\ UNCHANGED reducerVars
    /\ pc = "join"
    /\ AllTasksDone
    /\ LET gathered == IF Get(campaigns_data, "data", <<>>) # <<>>
                       THEN GatherResults(tasks) ELSE <<>>
           recent_campaigns_total == Len(gathered)
           account == [impressions |-> impressions, clicks |-> clicks, ctr |-> ctr,
                       cpc |-> cpc, spent |-> spent, conversions |-> conversions,
                       engagement |-> engagement]
           final == FinalValues(account, Aggregated(gathered))
           popped == [i \in 1..Len(gathered) |-> PopAux(gathered[i])]
       IN /\ impressions' = final.impressions
          /\ clicks' = final.clicks
          /\ ctr' = final.ctr
          /\ cpc' = final.cpc
          /\ spent' = final.spent
          /\ conversions' = final.conversions
          /\ engagement' = final.engagement
          /\ recent_campaignsMA' = popped
          /\ tasks' = [i \in 1..Len(tasks) |->
                          [tasks[i] EXCEPT !.campaign_obj = PopAux(@)]]
          /\ response' = [status_code |-> 200,
                          body |-> Result(total_active_campaigns, final,
                                          recent_campaigns_total, popped)]
    /\ pc' = "done"
    /\ UNCHANGED <<account_id, access_token, net, fetches, insights_data, campaigns_data,
                   total_active_campaigns>>

Next ==
    \/ GetMetrics
    \/ \E k \in FetchNames : FetchIssue(k)
    \/ \E k \in FetchNames : FetchComplete(k)
    \/ GatherFail
    \/ GatherReturn
    \/ \E i \in 1..Len(tasks) : TaskIssue(i)
    \/ \E i \in 1..Len(tasks) : TaskComplete(i)
    \/ Aggregate

Spec == Init /\ [][Next]_vars

-----------------------------------------------------------------------------
(* The action loop of get_campaign_insights on its own: one run reduces a  *)
(* list of action records, and the two parts of a split of it.             *)

ActionRecords ==
    { Action(type, value) :
        type \in {"offsite_conversion", "page_engagement", "post_reaction", "link_click"},
        value \in {Num(3), Str("x")} }
      \cup { [action_type |-> "post_engagement", value |-> NumStr(2)],
             [action_type |-> "post_engagement"],
             [value |-> Num(5)] }

ActionLists == UNION { [1..n -> ActionRecords] : n \in 0..MaxActions }

\* camp_conversions and camp_engagement after the loop over these actions
Reduce(actions) ==
    [conversions |-> SumActions(actions, ActionTypesConversions),
     engagement |-> SumActions(actions, ActionTypesEngagement)]

ReduceInit ==
    /\ PipelineInit
    /\ actions_in \in ActionLists
    /\ reduced = None

ReduceActions ==
    /\ reduced = None
    /\ \E k \in 0..Len(actions_in) :
         reduced' = [split |-> k,
                     whole |-> Reduce(actions_in),
                     left |-> Reduce(SubSeq(actions_in, 1, k)),
                     right |-> Reduce(SubSeq(actions_in, k + 1, Len(actions_in)))]
    /\ UNCHANGED <<pc, account_id, access_token, net, fetches, pipelineLocals, response,
                   actions_in>>

SpecReduce == ReduceInit /\ [][ReduceActions]_vars

-----------------------------------------------------------------------------
(* Vocabulary of the properties, stated on what the upstream sent and on   *)
(* what the caller received.                                               *)

StatusOf(r) == IF "status_code" \in DOMAIN r THEN r.status_code ELSE 0

ResultReturned == pc = "done" /\ StatusOf(response) = 200

TheResult == response.body

CredentialMissing(x) == x \in {None, Str("")}

\* The call failed: a status other than 200, a transport error or a timeout.
CallFailed(o) == o.kind = "error" \/ o.status # 200

\* The call failed with a status outside 2xx, or in transport.
CallFailedNon2xx(o) == o.kind = "error" \/ o.status \notin 200..299

ListingCompleted == fetches["campaigns"].st = "done"
ListingOutcome == fetches["campaigns"].outcome
ListingSucceeded == ListingCompleted /\ ~CallFailedNon2xx(ListingOutcome)
ListingOk200 == ListingCompleted /\ ~CallFailed(ListingOutcome)

\* The campaigns of the listing response, none when it has no data array
ListedCampaigns == Get(ListingOutcome.body.json, "data", <<>>)

IsCampaignInsightsRequest(r) == r.fields = ParamsCampaignInsightsFields

FailedTasks == { i \in 1..Len(tasks) : CallFailed(tasks[i].outcome) }

RECURSIVE SumOfSet(_, _)
SumOfSet(S, f) ==
    IF S = {} THEN 0
    ELSE LET x == CHOOSE y \in S : TRUE IN f[x] + SumOfSet(S \ {x}, f)

\* str is num/den written with two decimals: h hundredths, h nearest to the value
IsTwoDecimals(str, num, den, suffix) ==
    LET q == (100 * num) \div den
    IN \E h \in {q, q + 1} :
         /\ 2 * (IF 100 * num >= h * den THEN 100 * num - h * den ELSE h * den - 100 * num) <= den
         /\ str = ToString(h \div 100) \o "." \o ToString((h \div 10) % 10)
                     \o ToString(h % 10) \o suffix

-----------------------------------------------------------------------------
(* Properties *)

\* C1: when the fan-in completes, whatever subset F of the per-campaign
\* calls failed, a result is returned; every campaign of F is in it with the
\* default values, and each total is the sum, over the campaigns not in F,
\* of what the campaign's branch produced (its impressions and clicks, and
\* its _spend, _conversions and _engagement).
C1_PartialFailureResilience ==
    [][ (pc = "join" /\ AllTasksDone /\ pc' = "done") =>
          LET F == FailedTasks
              S == (1..Len(tasks)) \ F
              contrib(key) == [i \in 1..Len(tasks) |-> Get(tasks[i].campaign_obj, key, 0)]
              r == response'.body
          IN /\ StatusOf(response') = 200
             /\ Len(r.recent_campaignsMA) = Len(tasks)
             /\ \A i \in F :
                  /\ r.recent_campaignsMA[i].impressions = 0
                  /\ r.recent_campaignsMA[i].clicks = 0
                  /\ r.recent_campaignsMA[i].ctr = "0.00%"
                  /\ r.recent_campaignsMA[i].cpc = "0.00"
             /\ r.total_impressions = SumOfSet(S, contrib("impressions"))
             /\ r.total_clicks = SumOfSet(S, contrib("clicks"))
             /\ r.spent = SumOfSet(S, contrib("_spend"))
             /\ r.conversions = SumOfSet(S, contrib("_conversions"))
             /\ r.engajamento = SumOfSet(S, contrib("_engagement")) ]_vars

\* A result in which one campaign's call failed and another's contributed.
C1_Witness ==
    /\ ResultReturned
    /\ \E i, j \in 1..Len(tasks) :
         /\ i < j
         /\ ~CallFailed(tasks[i].outcome)
         /\ CallFailed(tasks[j].outcome)
    /\ TheResult.total_impressions > 0
    /\ TheResult.spent > 0
    /\ TheResult.conversions > 0

\* C2: once the listing call has failed, the response the caller receives
\* is a 502.
C2_ListingFailureIsBadGateway ==
    (pc = "done" /\ ListingCompleted /\ CallFailedNon2xx(ListingOutcome))
        => StatusOf(response) = 502

\* C3: with both credentials present and the listing call answered with
\* status 200, the request ends with a result.
C3_FailsOnlyOnListingFailure ==
    (pc = "done" /\ ~CredentialMissing(account_id) /\ ~CredentialMissing(access_token)
        /\ ListingOk200)
        => StatusOf(response) = 200

\* C4: a request whose account_id or access_token is missing or empty is
\* answered with a 400 and no upstream request is ever sent for it.
C4_ValidationShortCircuit ==
    (pc # "idle" /\ (CredentialMissing(account_id) \/ CredentialMissing(access_token)))
        => /\ StatusOf(response) = 400
           /\ net = <<>>

\* A rejected request with an empty account_id.
C4_Witness ==
    /\ pc = "done"
    /\ account_id = Str("")
    /\ StatusOf(response) = 400

\* C5: a per-campaign insights request is on the wire only if the listing
\* call has completed successfully; after a failed listing there is none.
C5_ListingBeforeFanOut ==
    \A n \in 1..Len(net) : IsCampaignInsightsRequest(net[n]) => ListingSucceeded

\* A per-campaign request has been sent.
C5_Witness == \E n \in 1..Len(net) : IsCampaignInsightsRequest(net[n])

\* C6: the i-th campaign of the result has the id and the name of the i-th
\* campaign of the listing response.
C6_OrderPreservation ==
    ResultReturned =>
        /\ Len(TheResult.recent_campaignsMA) = Len(ListedCampaigns)
        /\ \A i \in 1..Len(ListedCampaigns) :
             /\ TheResult.recent_campaignsMA[i].id = Get(ListedCampaigns[i], "id", "")
             /\ TheResult.recent_campaignsMA[i].nome_da_campanha
                    = Get(ListedCampaigns[i], "name", "")

\* A result for at least two campaigns, one of whose calls failed.
C6_Witness ==
    /\ ResultReturned
    /\ Len(ListedCampaigns) >= 2
    /\ FailedTasks # {}
    /\ FailedTasks # 1..Len(tasks)

\* C7: the two counts of the result, the length of its campaign list and
\* the number of campaigns in the listing response are all equal.
C7_CountInvariant ==
    ResultReturned =>
        /\ TheResult.active_campaigns = TheResult.recent_campaigns_total
        /\ TheResult.recent_campaigns_total = Len(TheResult.recent_campaignsMA)
        /\ Len(TheResult.recent_campaignsMA) = Len(ListedCampaigns)

\* A result for a non-empty listing all of whose per-campaign calls failed.
C7_Witness ==
    /\ ResultReturned
    /\ Len(ListedCampaigns) >= 1
    /\ FailedTasks = 1..Len(tasks)

\* C8: the result's ctr is total_clicks / total_impressions * 100 with two
\* decimals and "%" when total_impressions > 0 and "0.00%" otherwise; its
\* cpc is spent / total_clicks with two decimals when total_clicks > 0 and
\* "0.00" otherwise.
C8_RatiosConsistent ==
    ResultReturned =>
        LET r == TheResult
        IN /\ IF r.total_impressions > 0
              THEN IsTwoDecimals(r.ctr, r.total_clicks * 100, r.total_impressions, "%")
              ELSE r.ctr = "0.00%"
           /\ IF r.total_clicks > 0
              THEN IsTwoDecimals(r.cpc, r.spent, Scale * r.total_clicks, "")
              ELSE r.cpc = "0.00"

\* A result whose two ratios are not zero.
C8_Witness ==
    /\ ResultReturned
    /\ TheResult.total_impressions > 0
    /\ TheResult.total_clicks > 0
    /\ TheResult.spent > 0
    /\ TheResult.ctr # "0.00%"
    /\ TheResult.cpc # "0.00"

\* The result as the listing response and the per-campaign responses alone
\* determine it
ResultOfCampaigns ==
    LET objs == [i \in 1..Len(ListedCampaigns) |->
                    CampaignObjAfter(DefaultCampaignObj(ListedCampaigns[i]),
                                     fetch(tasks[i].outcome))]
    IN Result(Len(ListedCampaigns), Aggregated(objs), Len(objs),
              [i \in 1..Len(objs) |-> PopAux(objs[i])])

\* C9: a returned result is a function of the listing response and of the
\* per-campaign responses; the account-level insights record has no part in it.
C9_IndependentOfAccountInsights ==
    ResultReturned => TheResult = ResultOfCampaigns

\* A result returned after an account-level record with its own spend,
\* which differs from the spend reported.
C9_Witness ==
    /\ ResultReturned
    /\ Len(tasks) >= 1
    /\ ToFloat(insights_data.data[1], "spend") > 0
    /\ ToFloat(insights_data.data[1], "spend") # TheResult.spent
    /\ TheResult.spent > 0

\* C10: no campaign of a returned result has a key _spend, _conversions or
\* _engagement.
C10_AuxKeysNotExposed ==
    ResultReturned =>
        \A i \in 1..Len(TheResult.recent_campaignsMA) :
            DOMAIN TheResult.recent_campaignsMA[i]
                \cap {"_spend", "_conversions", "_engagement"} = {}

\* A result with a campaign whose row was read and one whose call failed.
C10_Witness ==
    /\ ResultReturned
    /\ FailedTasks # {}
    /\ TheResult.engajamento > 0

\* What task i's call came back with, once it has
TaskRow(o) == o.body.json.data[1]
HasRow(o) ==
    /\ ~CallFailed(o)
    /\ "data" \in DOMAIN o.body.json
    /\ o.body.json.data # <<>>

\* The row's actions hold an entry that is not an object, on which
\* action.get raises inside the try block.
RowProcessingRaises(o) ==
    /\ HasRow(o)
    /\ "actions" \in DOMAIN TaskRow(o)
    /\ \E n \in 1..Len(TaskRow(o).actions) : "t" \in DOMAIN TaskRow(o).actions[n]

\* A field of the row as a number: 0 when absent or not numeric
Coerced(row, key) ==
    IF key \in DOMAIN row /\ row[key].t \in {"num", "numstr"} THEN row[key].v ELSE 0

IsDefaultSummary(c) ==
    /\ c.impressions = 0
    /\ c.clicks = 0
    /\ c.ctr = "0.00%"
    /\ c.cpc = "0.00"

\* C11: in a returned result, every campaign whose branch recovered from an
\* exception (raised by the fetch, or raised while its row was processed)
\* is the zero-valued default.
C11_RecoveryAllOrNothing ==
    ResultReturned =>
        \A i \in 1..Len(tasks) :
            (CallFailed(tasks[i].outcome) \/ RowProcessingRaises(tasks[i].outcome))
                => IsDefaultSummary(TheResult.recent_campaignsMA[i])

\* C12 as stated: for a campaign whose call succeeded with a row, cpc is
\* spend / clicks with two decimals when clicks > 0 and "0.00" otherwise, and
\* ctr is clicks / impressions * 100 with two decimals and "%" when
\* impressions > 0 and "0.00%" otherwise.
C12_CpcFromSpendAndClicks ==
    ResultReturned =>
        \A i \in 1..Len(tasks) :
            HasRow(tasks[i].outcome) =>
                LET row == TaskRow(tasks[i].outcome)
                    c == TheResult.recent_campaignsMA[i]
                IN /\ IF Coerced(row, "clicks") > 0
                      THEN IsTwoDecimals(c.cpc, Coerced(row, "spend"), Coerced(row, "clicks"), "")
                      ELSE c.cpc = "0.00"
                   /\ IF Coerced(row, "impressions") > 0
                      THEN IsTwoDecimals(c.ctr, Coerced(row, "clicks") * 100,
                                         Coerced(row, "impressions"), "%")
                      ELSE c.ctr = "0.00%"

\* C12 as amended: for a campaign whose call succeeded with a row, cpc is
\* the row's own cpc field (0 when absent or not numeric) with two decimals,
\* and ctr is clicks / impressions * 100 with two decimals and "%" when
\* impressions > 0 and "0.00%" otherwise.
C12_CpcFromUpstreamField ==
    ResultReturned =>
        \A i \in 1..Len(tasks) :
            HasRow(tasks[i].outcome) =>
                LET row == TaskRow(tasks[i].outcome)
                    c == TheResult.recent_campaignsMA[i]
                IN /\ IsTwoDecimals(c.cpc, Coerced(row, "cpc"), Scale, "")
                   /\ IF Coerced(row, "impressions") > 0
                      THEN IsTwoDecimals(c.ctr, Coerced(row, "clicks") * 100,
                                         Coerced(row, "impressions"), "%")
                      ELSE c.ctr = "0.00%"

\* A result with a campaign whose row has clicks, a spend and a cpc field
\* that is not spend / clicks.
C12_Witness ==
    /\ ResultReturned
    /\ \E i \in 1..Len(tasks) :
         /\ HasRow(tasks[i].outcome)
         /\ Coerced(TaskRow(tasks[i].outcome), "clicks") > 0
         /\ Coerced(TaskRow(tasks[i].outcome), "spend") > 0
         /\ Coerced(TaskRow(tasks[i].outcome), "cpc") > 0
         /\ TheResult.recent_campaignsMA[i].cpc # "0.00"
         /\ TheResult.recent_campaignsMA[i].ctr # "0.00%"

\* The requests sent for the insights of the campaign with this id
RequestsFor(campaign_id) ==
    { n \in 1..Len(net) :
        /\ IsCampaignInsightsRequest(net[n])
        /\ net[n].url = "https://graph.facebook.com/v16.0/" \o campaign_id \o "/insights" }

\* C13: at most one insights request is ever sent per listed campaign, and
\* when the request is answered exactly one has been sent for each and every
\* branch has reached its terminal outcome.
C13_FanInCompleteness ==
    /\ \A i \in 1..Len(tasks) :
         Cardinality(RequestsFor(Get(tasks[i].camp, "id", ""))) <= 1
    /\ ResultReturned =>
         /\ Len(tasks) = Len(ListedCampaigns)
         /\ \A i \in 1..Len(tasks) :
              /\ tasks[i].st = "done"
              /\ Cardinality(RequestsFor(Get(ListedCampaigns[i], "id", ""))) = 1
         /\ Cardinality({ n \in 1..Len(net) : IsCampaignInsightsRequest(net[n]) })
                = Len(ListedCampaigns)

\* A result for two campaigns, one answered with a row and one failed.
C13_Witness ==
    /\ ResultReturned
    /\ Len(tasks) >= 2
    /\ \E i, j \in 1..Len(tasks) :
         /\ HasRow(tasks[i].outcome)
         /\ CallFailed(tasks[j].outcome)

\* What the branch of the i-th listed campaign returns, from its own
\* campaign and its own response alone
OwnObject(i) ==
    CampaignObjAfter(DefaultCampaignObj(ListedCampaigns[i]), fetch(tasks[i].outcome))

OwnContributions(key) == [i \in 1..Len(tasks) |-> Get(OwnObject(i), key, 0)]

\* C14: a step of one concurrent branch changes that branch's task and
\* nothing any other branch or the join reads; and in a returned result
\* every campaign and every total is determined by the listing and by each
\* campaign's own response, whatever the order in which the branches ran.
C14_InterleavingIndependence ==
    /\ [](ResultReturned =>
            /\ \A i \in 1..Len(tasks) :
                 \A k \in DOMAIN TheResult.recent_campaignsMA[i] :
                    TheResult.recent_campaignsMA[i][k] = OwnObject(i)[k]
            /\ TheResult.total_impressions
                 = SumOfSet(1..Len(tasks), OwnContributions("impressions"))
            /\ TheResult.total_clicks
                 = SumOfSet(1..Len(tasks), OwnContributions("clicks"))
            /\ TheResult.spent
                 = SumOfSet(1..Len(tasks), OwnContributions("_spend"))
            /\ TheResult.conversions
                 = SumOfSet(1..Len(tasks), OwnContributions("_conversions"))
            /\ TheResult.engajamento
                 = SumOfSet(1..Len(tasks), OwnContributions("_engagement")))
    /\ [][ (pc = "join" /\ pc' = "join") =>
             /\ Len(tasks') = Len(tasks)
             /\ \E i \in 1..Len(tasks) : \A j \in 1..Len(tasks) : j # i => tasks'[j] = tasks[j]
             /\ UNCHANGED <<fetches, insights_data, campaigns_data, impressions, clicks,
                            ctr, cpc, spent, conversions, engagement,
                            total_active_campaigns, recent_campaignsMA, response>> ]_vars

\* A result for two campaigns whose requests were sent in the reverse of
\* the listing order, each answered with a row of its own.
C14_Witness ==
    /\ ResultReturned
    /\ Len(tasks) = 2
    /\ HasRow(tasks[1].outcome)
    /\ HasRow(tasks[2].outcome)
    /\ tasks[1].outcome # tasks[2].outcome
    /\ \E m, n \in 1..Len(net) :
         /\ m < n
         /\ m \in RequestsFor(Get(tasks[2].camp, "id", ""))
         /\ n \in RequestsFor(Get(tasks[1].camp, "id", ""))

\* What the calls that have completed came back with
CompletedOutcomes ==
    { fetches[k].outcome : k \in { k \in FetchNames : fetches[k].st = "done" } }
        \cup { tasks[i].outcome : i \in { i \in 1..Len(tasks) : tasks[i].st = "done" } }

\* C15: for every call that completed, fetch returns the parsed body when
\* the status is in 200..299 and raises an error naming the status and the
\* body when it is not; and no request is sent twice.
C15_StatusClassification ==
    /\ \A o \in CompletedOutcomes :
         o.kind = "response" =>
            IF o.status \in 200..299
            THEN fetch(o) = [raised |-> FALSE, value |-> o.body.json]
            ELSE fetch(o) = [raised |-> TRUE,
                             exc |-> "Erro " \o ToString(o.status) \o ": " \o o.body.text]
    /\ \A m, n \in 1..Len(net) : net[m] = net[n] => m = n

\* The sum of the numeric values of the records whose action_type is in types
SumOfMatching(actions, types) ==
    SumOfSet({ n \in 1..Len(actions) :
                 /\ "action_type" \in DOMAIN actions[n]
                 /\ actions[n].action_type \in types },
             [n \in 1..Len(actions) |-> Coerced(actions[n], "value")])

\* C16: after the loop, conversions is the sum of the numeric values of the
\* offsite_conversion records and engagement that of the page_engagement,
\* post_engagement and post_reaction records (a value that is not numeric
\* counts as 0, records of other types count for nothing), and for every
\* split of the list each accumulator of the whole is the sum of the
\* accumulators of the two parts.
C16_ActionReduction ==
    reduced # None =>
        /\ reduced.whole.conversions
             = SumOfMatching(actions_in, {"offsite_conversion"})
        /\ reduced.whole.engagement
             = SumOfMatching(actions_in, {"page_engagement", "post_engagement", "post_reaction"})
        /\ reduced.whole.conversions = reduced.left.conversions + reduced.right.conversions
        /\ reduced.whole.engagement = reduced.left.engagement + reduced.right.engagement

\* A reduced list split strictly inside, both of whose parts add to an
\* accumulator, holding a value that is not numeric and a record of
\* another type.
C16_Witness ==
    /\ reduced # None
    /\ reduced.split > 0
    /\ reduced.split < Len(actions_in)
    /\ reduced.left.engagement > 0
    /\ reduced.right.engagement > 0
    /\ \E n \in 1..Len(actions_in) :
         /\ "value" \in DOMAIN actions_in[n]
         /\ actions_in[n].value = Str("x")
    /\ \E n \in 1..Len(actions_in) :
         /\ "action_type" \in DOMAIN actions_in[n]
         /\ actions_in[n].action_type = "link_click"

\* The handler's position, later positions ranking lower
PhaseRank ==
    CASE pc = "idle" -> 3
      [] pc = "gather" -> 2
      [] pc = "join" -> 1
      [] pc = "done" -> 0

\* The steps the calls of the current position still have to take
StepsLeft ==
    IF pc = "gather"
    THEN Cardinality({ k \in FetchNames : fetches[k].st = "scheduled" }) * 2
            + Cardinality({ k \in FetchNames : fetches[k].st = "inflight" })
    ELSE IF pc = "join"
    THEN Cardinality({ i \in 1..Len(tasks) : tasks[i].st = "scheduled" }) * 2
            + Cardinality({ i \in 1..Len(tasks) : tasks[i].st = "inflight" })
    ELSE 0

\* A step of the initial gather or of one branch of the fan-out; the one
\* other step of a request in progress is Aggregate, which can be taken
\* exactly when pc = "join" and AllTasksDone.
CallStep ==
    \/ \E k \in FetchNames : FetchIssue(k)
    \/ \E k \in FetchNames : FetchComplete(k)
    \/ GatherFail
    \/ GatherReturn
    \/ \E i \in 1..Len(tasks) : TaskIssue(i)
    \/ \E i \in 1..Len(tasks) : TaskComplete(i)

\* C17: a request that has been received and not yet answered can always
\* take a step (it never blocks, at the initial gather or at the join), every
\* step brings it closer to its answer in a well-founded order, nothing is
\* answered before the handler ends, the handler ends with an answer, and an
\* answer once given never changes.  With steps that are taken when they
\* can be, every request is therefore answered, and exactly once.
C17_AnsweredExactlyOnce ==
    /\ [](pc \in {"gather", "join"} =>
            \/ ENABLED CallStep
            \/ pc = "join" /\ AllTasksDone)
    /\ [][ \/ PhaseRank' < PhaseRank
           \/ (PhaseRank' = PhaseRank /\ StepsLeft' < StepsLeft) ]_vars
    /\ [](pc # "done" <=> StatusOf(response) = 0)
    /\ [][StatusOf(response) # 0 => response' = response]_vars

\* A request answered with a result although one of its per-campaign calls
\* timed out.
C17_Witness ==
    /\ ResultReturned
    /\ Len(tasks) >= 2
    /\ Cardinality(FailedTasks) = 1
    /\ \E i \in FailedTasks : tasks[i].outcome.kind = "error"

====
